---- MODULE Spec2Model ----
(***************************************************************************)
(* Model of src/store/publish/helpers.js: publishPassage, publishStory,    *)
(* publishStoryWithFormat and publishArchive.                              *)
(*                                                                         *)
(* A JavaScript string is a sequence of chunks.  A chunk is one character  *)
(* of data ("a", "<", "&", ...) or one word of the markup the source       *)
(* writes literally ("tw-passagedata", "pid=", ...).  The string is the    *)
(* concatenation of its chunks.  The two template tokens are chunks too.   *)
(***************************************************************************)
EXTENDS Integers, Sequences, FiniteSets

(* ---------------------------- bounds ----------------------------------- *)
MaxPassages == 2
MaxTags == 2
MaxStories == 2
MaxTemplateLen == 2
MaxValueLen == 2

(* ------------------------- JavaScript values --------------------------- *)
\* undefined / null where an identifier is expected; the only falsy identifier
Undefined == "undefined"

Truthy(x) == x # Undefined

\* null passed as formatOptions; a string is [type |-> "string", chars |-> s]
Null == [type |-> "null"]

Str(s) == [type |-> "string", chars |-> s]

SeqsUpTo(S, n) == UNION {[1..k -> S] : k \in 0..n}

RECURSIVE Flatten(_)
Flatten(ss) == IF ss = <<>> THEN <<>> ELSE Head(ss) \o Flatten(Tail(ss))

\* Array.prototype.join
RECURSIVE join(_, _)
join(ss, sep) ==
    IF ss = <<>> THEN <<>>
    ELSE IF Len(ss) = 1 THEN Head(ss)
    ELSE Head(ss) \o sep \o join(Tail(ss), sep)

Digit(d) ==
    CASE d = 0 -> "0" [] d = 1 -> "1" [] d = 2 -> "2" [] d = 3 -> "3"
      [] d = 4 -> "4" [] d = 5 -> "5" [] d = 6 -> "6" [] d = 7 -> "7"
      [] d = 8 -> "8" [] d = 9 -> "9"

\* Number.prototype.toString for a non-negative integer
RECURSIVE NumberToString(_)
NumberToString(n) ==
    IF n < 10 THEN <<Digit(n)>>
    ELSE NumberToString(n \div 10) \o <<Digit(n % 10)>>

\* lodash toString of the value handed to escape: null becomes ''
toString(v) == IF v = Null THEN <<>> ELSE v.chars

(* ------------------------------ escape --------------------------------- *)
escapeChar(c) ==
    CASE c = "&" -> <<"&", "a", "m", "p", ";">>
      [] c = "<" -> <<"&", "l", "t", ";">>
      [] c = ">" -> <<"&", "g", "t", ";">>
      [] c = "\"" -> <<"&", "q", "u", "o", "t", ";">>
      [] c = "'" -> <<"&", "#", "3", "9", ";">>
      [] OTHER -> <<c>>

\* lodash.escape on a string
escape(s) == Flatten([k \in 1..Len(s) |-> escapeChar(s[k])])

(* --------------------------- publishPassage ---------------------------- *)
localIdZeroBased(index) == index

\* the local id forEach hands to publishPassage for the passage at the
\* 0-based array index
localId(index) == index + 1

publishPassageRawText(passage, lid) ==
    <<"<", "tw-passagedata", " ", "pid=", "\"">> \o escape(NumberToString(lid))
    \o <<"\"", " ", "name=", "\"">> \o escape(passage.name)
    \o <<"\"", " ", "tags=", "\"">> \o escape(join(passage.tags, <<" ">>))
    \o <<"\"", " ", "position=", "\"">>
    \o NumberToString(passage.left) \o <<",">> \o NumberToString(passage.top)
    \o <<"\"", " ", "size=", "\"">>
    \o NumberToString(passage.width) \o <<",">> \o NumberToString(passage.height)
    \o <<"\"", ">">> \o passage.text
    \o <<"<", "/", "tw-passagedata", ">">>

\* lines 140-149; localId is a number, escape converts it to its decimal string
publishPassage(passage, lid) ==
    <<"<", "tw-passagedata", " ", "pid=", "\"">> \o escape(NumberToString(lid))
    \o <<"\"", " ", "name=", "\"">> \o escape(passage.name)
    \o <<"\"", " ", "tags=", "\"">> \o escape(join(passage.tags, <<" ">>))
    \o <<"\"", " ", "position=", "\"">>
    \o NumberToString(passage.left) \o <<",">> \o NumberToString(passage.top)
    \o <<"\"", " ", "size=", "\"">>
    \o NumberToString(passage.width) \o <<",">> \o NumberToString(passage.height)
    \o <<"\"", ">">> \o escape(passage.text)
    \o <<"<", "/", "tw-passagedata", ">">>

(* ---------------------------- publishStory ----------------------------- *)
resolveStartIdStoryOnly(sid, st) == st.startPassage

\* startId = startId || story.startPassage
resolveStartId(sid, st) == IF Truthy(sid) THEN sid ELSE st.startPassage

noStartIdNever(sid) == FALSE

\* !startId
noStartId(sid) == ~Truthy(sid)

findStartAlways(st, sid) == TRUE

\* story.passages.find(p => p.id === startId)
findStart(st, sid) == \E k \in 1..Len(st.passages) : st.passages[k].id = sid

NoStartPoint == "There is no starting point set for this story."

StartPointNotFound ==
    "The passage set as starting point for this story does not exist."

MissingTemplateSource == "Story format has no source property."

tagElement(entry) ==
    <<"<", "tw-tag", " ", "name=", "\"">> \o escape(entry.tag)
    \o <<"\"", " ", "color=", "\"">> \o escape(entry.color)
    \o <<"\"", ">", "<", "/", "tw-tag", ">">>

\* Object.keys(story.tagColors).map(...): an array of strings
tagData(st) == [k \in 1..Len(st.tagColors) |-> tagElement(st.tagColors[k])]

\* an array operand of + is converted by Array.prototype.toString,
\* which is join(',')
ArrayToString(arr) == join(arr, <<",">>)

\* `${startLocalId || ''}`; startLocalId 0 stands for undefined
startnode(slid) == IF slid = 0 THEN <<>> ELSE NumberToString(slid)

storyMarkup(app, st, fo, slid, pdata) ==
    <<"<", "tw-storydata", " ", "name=", "\"">> \o escape(st.name)
    \o <<"\"", " ", "startnode=", "\"">> \o startnode(slid)
    \o <<"\"", " ", "creator=", "\"">> \o escape(app.name)
    \o <<"\"", " ", "creator-version=", "\"">> \o escape(app.version)
    \o <<"\"", " ", "ifid=", "\"">> \o escape(st.ifid)
    \o <<"\"", " ", "zoom=", "\"">> \o escape(NumberToString(st.zoom))
    \o <<"\"", " ", "format=", "\"">> \o escape(st.storyFormat)
    \o <<"\"", " ", "format-version=", "\"">> \o escape(st.storyFormatVersion)
    \o <<"\"", " ", "options=", "\"">> \o escape(toString(fo))
    \o <<"\"", " ", "hidden", ">">>
    \o <<"<", "style", " ", "role=", "\"", "stylesheet", "\"", " ", "id=", "\"",
         "twine-user-stylesheet", "\"", " ", "type=", "\"", "text/twine-css",
         "\"", ">">>
    \o st.stylesheet
    \o <<"<", "/", "style", ">">>
    \o <<"<", "script", " ", "role=", "\"", "script", "\"", " ", "id=", "\"",
         "twine-user-script", "\"", " ", "type=", "\"", "text/twine-javascript",
         "\"", ">">>
    \o st.script
    \o <<"<", "/", "script", ">">>
    \o ArrayToString(tagData(st))
    \o pdata
    \o <<"<", "/", "tw-storydata", ">">>

(* ------------------------ publishStoryWithFormat ----------------------- *)
STORY_NAME == "{{STORY_NAME}}"

STORY_DATA == "{{STORY_DATA}}"

noSourcePropertiesOnly(format) == ~format.hasProperties

\* !format.properties || !format.properties.source
noSource(format) ==
    \/ ~format.hasProperties
    \/ ~format.hasSource
    \/ format.source = <<>>

\* String.prototype.replace(/token/g, () => value): every match of the
\* token in s is replaced by value, which is inserted as it is
replaceAll(s, token, value) ==
    Flatten([k \in 1..Len(s) |-> IF s[k] = token THEN value ELSE <<s[k]>>])

\* position of the first match of the token at or after from, 0 if none
nextMatch(s, token, from) ==
    IF \E k \in from..Len(s) : s[k] = token
    THEN CHOOSE k \in from..Len(s) :
            /\ s[k] = token
            /\ \A j \in from..(k - 1) : s[j] # token
    ELSE 0

(* --------------------------- publishArchive ---------------------------- *)
\* '\n\n'
archiveSeparator == <<"\n", "\n">>

(* ------------------------------ inputs --------------------------------- *)
appInfo == [name |-> <<"T", "w">>, version |-> <<"2">>]

PassageIds == {"p1", "p2"}

\* an identifier that no passage carries
GoneId == "gone"

StartIds == PassageIds \cup {GoneId, Undefined}

Chars == {"a", "<", ">", "&", "\"", "'"}

Values == SeqsUpTo(Chars, MaxValueLen)

Passage(id, name, tags, text) ==
    [id |-> id, name |-> name, tags |-> tags, left |-> 10, top |-> 2,
     width |-> 3, height |-> 4, text |-> text]

\* the passage of an identifier; its name and text tell the passages apart
PassageOf(id) == Passage(id, <<"P", id>>, << <<"t">>, <<"u">> >>, <<"x", id>>)

TagColorsOf(k) ==
    [j \in 1..k |-> [tag |-> <<"t">> \o NumberToString(j), color |-> <<"r">>]]

Story(name, start, tags, passages) ==
    [name |-> name, ifid |-> <<"I">>, zoom |-> 1, storyFormat |-> <<"F">>,
     storyFormatVersion |-> <<"1">>, stylesheet |-> <<"<">>, script |-> <<"&">>,
     tagColors |-> tags, startPassage |-> start, passages |-> passages]

\* stories that differ in structure: passages, start passage, tag colours
StructStories ==
    {Story(<<"S">>, sp, TagColorsOf(k), ps) :
        sp \in StartIds, k \in 0..MaxTags,
        ps \in SeqsUpTo({PassageOf(id) : id \in PassageIds}, MaxPassages)}

\* stories that differ in the characters of one value
ContentStories ==
    {Story(v, "p1", <<>>, <<PassageOf("p1")>>) : v \in Values}
    \cup {Story(<<"S">>, "p1", <<>>, <<Passage("p1", v, <<>>, <<"x">>)>>) :
            v \in Values}
    \cup {Story(<<"S">>, "p1", <<>>, <<Passage("p1", <<"P">>, <<v, <<"u">> >>, <<"x">>)>>) :
            v \in Values}
    \cup {Story(<<"S">>, "p1", <<>>, <<Passage("p1", <<"P">>, <<>>, v)>>) :
            v \in Values}
    \cup {Story(<<"S">>, "p1", <<[tag |-> v, color |-> v]>>, <<PassageOf("p1")>>) :
            v \in Values}

FormatStoryNames == {<<"A", "&", "B">>, <<STORY_DATA>>, <<STORY_NAME>>}

FormatStories ==
    {Story(n, sp, <<>>, ps) :
        n \in FormatStoryNames, sp \in StartIds,
        ps \in {<<>>, <<PassageOf("p1")>>}}

TemplateChunks == {"x", STORY_NAME, STORY_DATA}

Formats ==
    {[hasProperties |-> FALSE, hasSource |-> FALSE, source |-> <<>>],
     [hasProperties |-> TRUE, hasSource |-> FALSE, source |-> <<>>]}
    \cup {[hasProperties |-> TRUE, hasSource |-> TRUE, source |-> t] :
            t \in SeqsUpTo(TemplateChunks, MaxTemplateLen)}

ArchiveStories ==
    {Story(<<"S">>, sp, <<>>, ps) :
        sp \in StartIds, ps \in {<<>>, <<PassageOf("p1")>>}}

NoFormat == [hasProperties |-> FALSE, hasSource |-> FALSE, source |-> <<>>]

NoStory == Story(<<>>, Undefined, <<>>, <<>>)

Args(st, sts, fmt, fo, sid, opt) ==
    [story |-> st, stories |-> sts, format |-> fmt, formatOptions |-> fo,
     startId |-> sid, startOptional |-> opt]

PublishStoryCalls ==
    {Args(st, <<>>, NoFormat, Str(<<"o", "\"">>), sid, opt) :
        st \in StructStories, sid \in StartIds, opt \in BOOLEAN}
    \cup {Args(st, <<>>, NoFormat, Null, Undefined, FALSE) : st \in ContentStories}

PublishStoryWithFormatCalls ==
    {Args(st, <<>>, fmt, Str(<<"o">>), sid, FALSE) :
        st \in FormatStories, fmt \in Formats, sid \in StartIds}

PublishArchiveCalls ==
    {Args(NoStory, sts, NoFormat, Null, Undefined, FALSE) :
        sts \in SeqsUpTo(ArchiveStories, MaxStories)}

(* ------------------------------- state --------------------------------- *)
VARIABLES
    fn,            \* the exported function that was called
    args,          \* its arguments
    pc,            \* where the called function stands
    output,        \* publishStoryWithFormat: output; publishArchive: the reduce accumulator
    lastIndex,     \* publishStoryWithFormat: where the {{STORY_DATA}} scan stands in output
    replaced,      \* publishStoryWithFormat: the result of the {{STORY_DATA}} replace so far
    i,             \* publishArchive: index of the story reduce is at
    psPc,          \* publishStory: where the activation stands
    story,         \* publishStory: parameter story
    formatOptions, \* publishStory: parameter formatOptions
    startId,       \* publishStory: parameter startId, reassigned on entry
    startOptional, \* publishStory: parameter startOptional
    startLocalId,  \* publishStory: startLocalId, 0 for undefined
    passageData,   \* publishStory: passageData
    index,         \* publishStory: number of passages forEach has visited
    returned,      \* the value the last publishStory call returned
    calls,         \* the publishStory calls made so far, with their arguments
    result         \* what the called function returned or threw

vars ==
    <<fn, args, pc, output, lastIndex, replaced, i, psPc, story, formatOptions,
      startId, startOptional, startLocalId, passageData, index, returned, calls,
      result>>

topVars == <<fn, args, pc, output, lastIndex, replaced, i, result>>

Pending == [status |-> "pending", value |-> <<>>, error |-> ""]

Returned(v) == [status |-> "returned", value |-> v, error |-> ""]

Thrown(e) == [status |-> "thrown", value |-> <<>>, error |-> e]

\* one publishStory call: its arguments and, once it has returned, its value
Call(st, fo, sid, opt) ==
    [story |-> st, formatOptions |-> fo, startId |-> sid, startOptional |-> opt,
     value |-> <<>>]

\* control enters publishStory with these arguments
Enter(st, fo, sid, opt) ==
    /\ psPc' = "entry"
    /\ story' = st
    /\ formatOptions' = fo
    /\ startId' = sid
    /\ startOptional' = opt
    /\ startLocalId' = 0
    /\ passageData' = <<>>
    /\ index' = 0
    /\ calls' = Append(calls, Call(st, fo, sid, opt))

InitCommon ==
    /\ output = <<>>
    /\ lastIndex = 1
    /\ replaced = <<>>
    /\ i = 1
    /\ startLocalId = 0
    /\ passageData = <<>>
    /\ index = 0
    /\ returned = <<>>
    /\ result = Pending

InitPublishStory ==
    /\ fn = "publishStory"
    /\ args \in PublishStoryCalls
    /\ pc = "publishStory"
    /\ psPc = "entry"
    /\ story = args.story
    /\ formatOptions = args.formatOptions
    /\ startId = args.startId
    /\ startOptional = args.startOptional
    /\ calls = <<Call(args.story, args.formatOptions, args.startId, args.startOptional)>>

InitIdle ==
    /\ psPc = "idle"
    /\ story = NoStory
    /\ formatOptions = Null
    /\ startId = Undefined
    /\ startOptional = FALSE
    /\ calls = <<>>

InitPublishStoryWithFormat ==
    /\ fn = "publishStoryWithFormat"
    /\ args \in PublishStoryWithFormatCalls
    /\ pc = "checkSource"
    /\ InitIdle

InitPublishArchive ==
    /\ fn = "publishArchive"
    /\ args \in PublishArchiveCalls
    /\ pc = "reduce"
    /\ InitIdle

Init ==
    /\ InitCommon
    /\ \/ InitPublishStory
       \/ InitPublishStoryWithFormat
       \/ InitPublishArchive

(* ------------------------- publishStory steps -------------------------- *)
\* line 74
PublishStoryResolve ==
    /\ psPc = "entry"
    /\ startId' = resolveStartId(startId, story)
    /\ psPc' = "verify"
    /\ UNCHANGED <<topVars, story, formatOptions, startOptional, startLocalId,
                   passageData, index, returned, calls>>

\* an exception leaves publishStory and, uncaught, the exported function
Throw(e) ==
    /\ psPc' = "thrown"
    /\ pc' = "thrown"
    /\ result' = Thrown(e)

\* lines 78-94
PublishStoryVerify ==
    /\ psPc = "verify"
    /\ IF ~startOptional /\ noStartId(startId)
       THEN Throw(NoStartPoint)
       ELSE IF ~startOptional /\ ~findStart(story, startId)
       THEN Throw(StartPointNotFound)
       ELSE /\ psPc' = "forEach"
            /\ UNCHANGED <<pc, result>>
    /\ UNCHANGED <<fn, args, output, lastIndex, replaced, i, story, formatOptions,
                   startId, startOptional, startLocalId, passageData, index,
                   returned, calls>>

\* lines 96-102, one passage
PublishStoryForEach ==
    /\ psPc = "forEach"
    /\ index < Len(story.passages)
    /\ passageData' =
         passageData \o publishPassage(story.passages[index + 1], localId(index))
    /\ startLocalId' =
         IF story.passages[index + 1].id = startId
         THEN localId(index) ELSE startLocalId
    /\ index' = index + 1
    /\ UNCHANGED <<topVars, psPc, story, formatOptions, startId, startOptional,
                   returned, calls>>

\* lines 104-132
PublishStoryReturn ==
    /\ psPc = "forEach"
    /\ index = Len(story.passages)
    /\ returned' = storyMarkup(appInfo, story, formatOptions, startLocalId, passageData)
    /\ calls' = [calls EXCEPT ![Len(calls)].value = returned']
    /\ psPc' = "returned"
    /\ IF fn = "publishStory"
       THEN /\ pc' = "done"
            /\ result' = Returned(returned')
       ELSE UNCHANGED <<pc, result>>
    /\ UNCHANGED <<fn, args, output, lastIndex, replaced, i, story, formatOptions,
                   startId, startOptional, startLocalId, passageData, index>>

(* -------------------- publishStoryWithFormat steps --------------------- *)
\* lines 22-26
PublishStoryWithFormatCheckSource ==
    /\ pc = "checkSource"
    /\ IF noSource(args.format)
       THEN /\ pc' = "thrown"
            /\ result' = Thrown(MissingTemplateSource)
            /\ UNCHANGED output
       ELSE /\ pc' = "replaceName"
            /\ output' = args.format.source
            /\ UNCHANGED result
    /\ UNCHANGED <<fn, args, lastIndex, replaced, i, psPc, story, formatOptions,
                   startId, startOptional, startLocalId, passageData, index,
                   returned, calls>>

\* line 33
PublishStoryWithFormatReplaceName ==
    /\ pc = "replaceName"
    /\ output' = replaceAll(output, STORY_NAME, escape(args.story.name))
    /\ pc' = "replaceData"
    /\ UNCHANGED <<fn, args, lastIndex, replaced, i, psPc, story, formatOptions,
                   startId, startOptional, startLocalId, passageData, index,
                   returned, calls, result>>

formatStartOptionalTrue == TRUE

\* line 35 passes no startOptional: it is undefined, which is falsy
formatStartOptional == FALSE

\* lines 34-35: the replace finds a match and calls the replacement function
PublishStoryWithFormatReplaceDataCall ==
    /\ pc = "replaceData"
    /\ psPc = "idle"
    /\ nextMatch(output, STORY_DATA, lastIndex) # 0
    /\ Enter(args.story, args.formatOptions, args.startId, formatStartOptional)
    /\ UNCHANGED <<topVars, returned>>

\* lines 34-36: the replacement function returned, its value stands for the match
PublishStoryWithFormatReplaceDataSubstitute ==
    /\ pc = "replaceData"
    /\ psPc = "returned"
    /\ LET m == nextMatch(output, STORY_DATA, lastIndex) IN
         /\ replaced' = replaced \o SubSeq(output, lastIndex, m - 1) \o returned
         /\ lastIndex' = m + 1
    /\ psPc' = "idle"
    /\ UNCHANGED <<fn, args, pc, output, i, story, formatOptions, startId,
                   startOptional, startLocalId, passageData, index, returned,
                   calls, result>>

\* lines 34-38: no match is left
PublishStoryWithFormatReturn ==
    /\ pc = "replaceData"
    /\ psPc \in {"idle"}
    /\ nextMatch(output, STORY_DATA, lastIndex) = 0
    /\ output' = replaced \o SubSeq(output, lastIndex, Len(output))
    /\ result' = Returned(output')
    /\ pc' = "done"
    /\ UNCHANGED <<fn, args, lastIndex, replaced, i, psPc, story, formatOptions,
                   startId, startOptional, startLocalId, passageData, index,
                   returned, calls>>

(* ------------------------ publishArchive steps ------------------------- *)
archiveStartOptionalFalse == FALSE

\* the startOptional argument of line 47
archiveStartOptional == TRUE

\* line 47: the reducer calls publishStory for the next story
PublishArchiveCall ==
    /\ pc = "reduce"
    /\ psPc = "idle"
    /\ i <= Len(args.stories)
    /\ Enter(args.stories[i], Null, Undefined, archiveStartOptional)
    /\ UNCHANGED <<topVars, returned>>

\* line 47: the reducer returns the new accumulator
PublishArchiveAppend ==
    /\ pc = "reduce"
    /\ psPc = "returned"
    /\ output' = output \o returned \o archiveSeparator
    /\ i' = i + 1
    /\ psPc' = "idle"
    /\ UNCHANGED <<fn, args, pc, lastIndex, replaced, story, formatOptions,
                   startId, startOptional, startLocalId, passageData, index,
                   returned, calls, result>>

\* lines 44-48: reduce has visited every story
PublishArchiveReturn ==
    /\ pc = "reduce"
    /\ psPc = "idle"
    /\ i > Len(args.stories)
    /\ result' = Returned(output)
    /\ pc' = "done"
    /\ UNCHANGED <<fn, args, output, lastIndex, replaced, i, psPc, story,
                   formatOptions, startId, startOptional, startLocalId,
                   passageData, index, returned, calls>>

Next ==
    \/ PublishStoryResolve
    \/ PublishStoryVerify
    \/ PublishStoryForEach
    \/ PublishStoryReturn
    \/ PublishStoryWithFormatCheckSource
    \/ PublishStoryWithFormatReplaceName
    \/ PublishStoryWithFormatReplaceDataCall
    \/ PublishStoryWithFormatReplaceDataSubstitute
    \/ PublishStoryWithFormatReturn
    \/ PublishArchiveCall
    \/ PublishArchiveAppend
    \/ PublishArchiveReturn

Spec == Init /\ [][Next]_vars

(* ----------------------- reading the markup back ----------------------- *)
\* position of the first chunk c of s at or after from, Len(s) + 1 if none
IndexOf(s, c, from) ==
    IF \E k \in from..Len(s) : s[k] = c
    THEN CHOOSE k \in from..Len(s) : s[k] = c /\ \A j \in from..(k - 1) : s[j] # c
    ELSE Len(s) + 1

\* the positions where an element of the given name opens
ElementStarts(s, name) ==
    {k \in 1..(Len(s) - 1) : s[k] = "<" /\ s[k + 1] = name}

\* the n-th smallest member of a set of positions
Nth(S, n) == CHOOSE x \in S : Cardinality({y \in S : y < x}) = n - 1

\* the value of the first attribute attr= at or after from: what stands
\* between its opening quote and the next quote
AttrValue(s, attr, from) ==
    LET a == IndexOf(s, attr, from)
    IN  SubSeq(s, a + 2, IndexOf(s, "\"", a + 2) - 1)

\* the text of the element opening at from: what stands between the end of
\* its opening tag and the next <
ElementText(s, from) ==
    LET a == IndexOf(s, ">", from)
    IN  SubSeq(s, a + 1, IndexOf(s, "<", a + 1) - 1)

Entities ==
    { <<"&", <<"&", "a", "m", "p", ";">> >>,
      <<"<", <<"&", "l", "t", ";">> >>,
      <<">", <<"&", "g", "t", ";">> >>,
      <<"\"", <<"&", "q", "u", "o", "t", ";">> >>,
      <<"'", <<"&", "#", "3", "9", ";">> >> }

EntityAt(s, k) ==
    {e \in Entities : k + Len(e[2]) - 1 <= Len(s)
                      /\ SubSeq(s, k, k + Len(e[2]) - 1) = e[2]}

\* what an HTML parser reads from escaped text
RECURSIVE Unescape(_)
Unescape(s) ==
    IF s = <<>> THEN <<>>
    ELSE IF EntityAt(s, 1) # {}
    THEN LET e == CHOOSE e \in EntityAt(s, 1) : TRUE
         IN  <<e[1]>> \o Unescape(SubSeq(s, Len(e[2]) + 1, Len(s)))
    ELSE <<Head(s)>> \o Unescape(Tail(s))

\* no <, > or " in s, and every & of s opens an entity
NoRawSpecial(s) ==
    \A k \in 1..Len(s) :
        /\ s[k] \notin {"<", ">", "\""}
        /\ s[k] = "&" => EntityAt(s, k) # {}

\* the publishStory call that is running or ran last
LastCall == calls[Len(calls)]

\* the start identifier a call resolves to: the explicit one if given
Resolved(call) ==
    IF call.startId # Undefined THEN call.startId ELSE call.story.startPassage

HasPassage(st, id) == \E k \in 1..Len(st.passages) : st.passages[k].id = id

PassageStarts == ElementStarts(returned, "tw-passagedata")

(* ------------------------------- claims -------------------------------- *)
\* C1: a fragment publishStory returns for a story of N passages holds exactly
\* N passage elements, and the k-th element carries pid k and the name and
\* text of the k-th passage of story.passages.
C1_PidsContiguous ==
    psPc = "returned" =>
        /\ Cardinality(PassageStarts) = Len(story.passages)
        /\ \A k \in 1..Len(story.passages) :
             LET at == Nth(PassageStarts, k)
             IN  /\ AttrValue(returned, "pid=", at) = NumberToString(k)
                 /\ Unescape(AttrValue(returned, "name=", at)) = story.passages[k].name
                 /\ Unescape(ElementText(returned, at)) = story.passages[k].text

C1_Witness ==
    /\ psPc = "returned"
    /\ Len(story.passages) >= 2
    /\ story.passages[1].id # story.passages[2].id

\* C2: in a fragment publishStory returns, startnode is the local id of a
\* passage whose id is the resolved start identifier (the explicit startId
\* if given, else story.startPassage), it is empty exactly when no passage
\* has that id, and a strict call that returns has a startnode in 1..N.
C2_Startnode ==
    psPc = "returned" =>
        LET sn == AttrValue(returned, "startnode=", 1)
            N == Len(story.passages)
            res == Resolved(LastCall)
        IN  /\ sn = <<>> <=> ~HasPassage(story, res)
            /\ sn # <<>> =>
                 \E k \in 1..N : sn = NumberToString(k) /\ story.passages[k].id = res
            /\ ~LastCall.startOptional => \E k \in 1..N : sn = NumberToString(k)

C2_Witness ==
    /\ psPc = "returned"
    /\ LastCall.startId = "p1"
    /\ story.startPassage = "p2"
    /\ Len(story.passages) = 2
    /\ story.passages[2].id = "p1"
    /\ AttrValue(returned, "startnode=", 1) = <<"2">>

\* C3: a publishStory call with no explicit start on a story with no
\* startPassage throws NoStartPoint and returns nothing when startOptional is
\* false, and returns a fragment with an empty startnode when it is true.
C3_NoStartPoint ==
    (calls # <<>> /\ LastCall.startId = Undefined
                  /\ LastCall.story.startPassage = Undefined) =>
        IF LastCall.startOptional
        THEN /\ psPc # "thrown"
             /\ psPc = "returned" => AttrValue(returned, "startnode=", 1) = <<>>
        ELSE /\ psPc \in {"entry", "verify", "thrown"}
             /\ LastCall.value = <<>>
             /\ psPc = "thrown" => result = Thrown(NoStartPoint)

C3_Witness ==
    /\ fn = "publishStory"
    /\ psPc = "thrown"
    /\ args.startId = Undefined
    /\ args.story.startPassage = Undefined
    /\ Len(args.story.passages) >= 1
    /\ result = Thrown(NoStartPoint)

\* C4: a strict publishStory call whose resolved start identifier is present
\* but is the id of no passage throws StartPointNotFound before any passage
\* is serialized, and returns nothing.
C4_StartPointNotFound ==
    (calls # <<>> /\ ~LastCall.startOptional
                  /\ Resolved(LastCall) # Undefined
                  /\ ~HasPassage(LastCall.story, Resolved(LastCall))) =>
        /\ psPc \in {"entry", "verify", "thrown"}
        /\ passageData = <<>>
        /\ index = 0
        /\ LastCall.value = <<>>
        /\ psPc = "thrown" => result = Thrown(StartPointNotFound)

C4_Witness ==
    /\ psPc = "thrown"
    /\ LastCall.startId = Undefined
    /\ story.startPassage = "p2"
    /\ Len(story.passages) >= 1
    /\ result = Thrown(StartPointNotFound)

\* C5: publishArchive never throws; what it returns is, for the stories in
\* order, the value of publishStory(appInfo, story, null, null, true)
\* followed by two newlines, and nothing else.
C5_Archive ==
    fn = "publishArchive" =>
        /\ pc # "thrown"
        /\ pc = "done" =>
             /\ Len(calls) = Len(args.stories)
             /\ \A k \in 1..Len(calls) :
                  /\ calls[k].story = args.stories[k]
                  /\ calls[k].formatOptions = Null
                  /\ calls[k].startId = Undefined
                  /\ calls[k].startOptional
                  /\ ElementStarts(calls[k].value, "tw-storydata") = {1}
             /\ result.status = "returned"
             /\ result.value =
                  Flatten([k \in 1..Len(calls) |-> calls[k].value \o <<"\n", "\n">>])

C5_Witness ==
    /\ fn = "publishArchive"
    /\ pc = "done"
    /\ Len(args.stories) = 2
    /\ args.stories[1].startPassage = Undefined
    /\ args.stories[2].startPassage = GoneId
    /\ Len(result.value) > 4

\* the template of the format the call was given
Template == args.format.source

\* the fragment publishStory returned to publishStoryWithFormat, if it was called
Fragment == IF calls = <<>> THEN <<>> ELSE calls[1].value

\* C6: what publishStoryWithFormat returns is the template with every
\* {{STORY_NAME}} token replaced by the escaped story name, every
\* {{STORY_DATA}} token replaced by the fragment of publishStory, and all
\* other text of the template unchanged, whatever the name contains.
C6_LiteralSubstitution ==
    (fn = "publishStoryWithFormat" /\ pc = "done") =>
        result.value =
            Flatten([k \in 1..Len(Template) |->
                CASE Template[k] = STORY_NAME -> escape(args.story.name)
                  [] Template[k] = STORY_DATA -> Fragment
                  [] OTHER -> <<Template[k]>>])

\* where the content of the story element begins: after </script>
AfterScript(s) ==
    LET e == CHOOSE k \in 1..(Len(s) - 3) :
                 /\ SubSeq(s, k, k + 3) = <<"<", "/", "script", ">">>
                 /\ \A j \in (k + 1)..(Len(s) - 3) :
                      SubSeq(s, j, j + 3) # <<"<", "/", "script", ">">>
    IN  e + 4

\* the position after the run of n tag-definition elements that begins at from,
\* 0 if no such run stands there
RECURSIVE AfterTags(_, _, _)
AfterTags(s, from, n) ==
    IF n = 0 THEN from
    ELSE IF /\ from + 1 <= Len(s)
            /\ s[from] = "<"
            /\ s[from + 1] = "tw-tag"
            /\ IndexOf(s, "/", from) + 2 <= Len(s)
            /\ SubSeq(s, IndexOf(s, "/", from) - 1, IndexOf(s, "/", from) + 2)
                 = <<"<", "/", "tw-tag", ">">>
    THEN AfterTags(s, IndexOf(s, "/", from) + 3, n - 1)
    ELSE 0

\* C7: after the stylesheet and script elements the story element holds one
\* tag-definition element per entry of story.tagColors and then, with nothing
\* between, the passage elements in order up to the closing tag.
C7_ContentOrder ==
    psPc = "returned" =>
        LET at == AfterTags(returned, AfterScript(returned), Len(story.tagColors))
        IN  /\ at # 0
            /\ SubSeq(returned, at, Len(returned))
                 = passageData \o <<"<", "/", "tw-storydata", ">">>

\* C8: the story name, and the name, tags and text of every passage, stand
\* in the fragment with no raw <, > or " and every & opening an entity, so
\* that the attribute or element read back holds the value and nothing else.
C8_Escaped ==
    psPc = "returned" =>
        /\ NoRawSpecial(AttrValue(returned, "name=", 1))
        /\ Unescape(AttrValue(returned, "name=", 1)) = story.name
        /\ Cardinality(PassageStarts) = Len(story.passages)
        /\ \A k \in 1..Len(story.passages) :
             LET at == Nth(PassageStarts, k)
                 p == story.passages[k]
             IN  /\ NoRawSpecial(AttrValue(returned, "name=", at))
                 /\ Unescape(AttrValue(returned, "name=", at)) = p.name
                 /\ NoRawSpecial(AttrValue(returned, "tags=", at))
                 /\ Unescape(AttrValue(returned, "tags=", at)) = join(p.tags, <<" ">>)
                 /\ NoRawSpecial(ElementText(returned, at))
                 /\ Unescape(ElementText(returned, at)) = p.text

C8_Witness ==
    /\ psPc = "returned"
    /\ Len(story.passages) = 1
    /\ story.passages[1].name = <<"\"", ">">>
    /\ AttrValue(returned, "name=", Nth(PassageStarts, 1))
         = <<"&", "q", "u", "o", "t", ";", "&", "g", "t", ";">>

\* C9: publishStoryWithFormat with a format that has no properties or no
\* properties.source throws MissingTemplateSource before publishStory is
\* called, also when the story has no start point or a start identifier of
\* no passage, and returns nothing.
C9_MissingTemplateSource ==
    (fn = "publishStoryWithFormat"
        /\ (~args.format.hasProperties \/ ~args.format.hasSource)) =>
        /\ pc \in {"checkSource", "thrown"}
        /\ calls = <<>>
        /\ psPc = "idle"
        /\ pc = "thrown" => result = Thrown(MissingTemplateSource)

C9_Witness ==
    /\ fn = "publishStoryWithFormat"
    /\ pc = "thrown"
    /\ args.format.hasProperties
    /\ ~args.format.hasSource
    /\ args.startId = Undefined
    /\ args.story.startPassage = GoneId
    /\ result = Thrown(MissingTemplateSource)

\* the call of publishStoryWithFormat has a format with a template, and the
\* start identifier it resolves to is absent or the id of no passage
BadStartWithSource ==
    /\ fn = "publishStoryWithFormat"
    /\ args.format.hasProperties
    /\ args.format.hasSource
    /\ Template # <<>>
    /\ ~HasPassage(args.story,
                   Resolved(Call(args.story, args.formatOptions, args.startId, FALSE)))

StartError ==
    IF Resolved(Call(args.story, args.formatOptions, args.startId, FALSE)) = Undefined
    THEN NoStartPoint
    ELSE StartPointNotFound

====
